---- MODULE Spec2Model ----
(***************************************************************************)
(* The workout session engine of the Neutra workout tracker:               *)
(* WorkoutScreen (src/app/(tabs)/index.tsx, lines 897-1604), the popup     *)
(* hook (src/hooks/usePopup.ts), the store created by DatabaseProvider     *)
(* (src/unnamed/part_006) and the profile statistics reader                *)
(* (src/unnamed/part_002).                                                 *)
(*                                                                         *)
(* JavaScript reference semantics.  The handlers copy the exercise ARRAY   *)
(* ([...activeExercises]) but share the ActiveExercise OBJECTS and their   *)
(* sets arrays, and an asynchronous endWorkout keeps, across its awaits,   *)
(* the array of the render in which End was pressed.  The session state    *)
(* activeExercises is kept by value; what an asynchronous endWorkout still *)
(* shares with it is kept as links:                                        *)
(*   - a closure entry [link |-> k] is the object now at position k of     *)
(*     activeExercises; [link |-> 0, obj |-> o] is an object the session   *)
(*     no longer holds (nothing can mutate it any more);                   *)
(*   - the set iterator of "for (const set of activeExercise.sets)" is     *)
(*     either attached (it walks the array that is the object's .sets now) *)
(*     or detached (removeSet gave the object a new array): then it keeps  *)
(*     the old array, each element with the position of the same set       *)
(*     object in the new array (0: not there), because removeSet renumbers *)
(*     the shared set objects in place.                                    *)
(* Numbers: a 1RM estimate weight * (1 + reps / 30) is kept as the integer *)
(* weight * (30 + reps), thirty times the value; volumes are integers.     *)
(***************************************************************************)
EXTENDS Integers, Sequences, FiniteSets, TLC

\* ------------------------------------------------------------------ bounds
\* exercises in one session
MaxExercises == 2
\* sets in one exercise
MaxSets == 2
\* the clock runs from 1 to MaxTime
MaxTime == 3
\* endWorkout invocations that reach the store, in one run
MaxEnds == 3
\* storage faults (a runAsync / getFirstAsync / getAllAsync that throws)
MaxFaults == 1
\* session edits (addExercise, addSet, updateSet, removeSet, removeExercise)
MaxEdits == 3

\* ------------------------------------------------------------ input values
\* useState<Date | null>(null): the null of workoutStartTime
NullTime == 0
\* a column or a value that is null / undefined / absent
Null == "null"
\* the logged-in user (AuthContext): the first users row, unit 'kg'
User == [id |-> 1, preferred_weight_unit |-> "kg"]
\* ids of the exercise catalog rows the user can pick
ExerciseIds == {1, 2}
\* what the user types into the reps and weight inputs
RepsInputs == {0, 5}
WeightInputs == {0, 100}
\* template_exercises rows (joined with exercises), by template id, ordered
\* by order_index; default_sets is parseInt(text) || 0 in the template editor
TemplateRows ==
  [t \in {1, 2, 3} |->
     CASE t = 1 ->
            << [exercise_id |-> 1, default_sets |-> 2, default_reps |-> 5,
                default_weight |-> 100, rest_time_seconds |-> 60, notes |-> ""] >>
       [] t = 2 ->
            << [exercise_id |-> 2, default_sets |-> 0, default_reps |-> 5,
                default_weight |-> 100, rest_time_seconds |-> 0, notes |-> ""] >>
       [] t = 3 ->
            << [exercise_id |-> 1, default_sets |-> 2, default_reps |-> 5,
                default_weight |-> 50, rest_time_seconds |-> 60, notes |-> ""] >>]
TemplateIds == DOMAIN TemplateRows

\* ------------------------------------------------------------------ schema
\* The columns of the tables endWorkout and checkPersonalRecords write, as
\* created by DatabaseProvider.initDatabase: name |-> TRUE when the column is
\* NOT NULL without a default (an insert has to supply it).
InitDatabaseTables ==
  [workouts |->
     [id |-> FALSE, user_id |-> TRUE, template_id |-> FALSE, name |-> FALSE,
      start_time |-> TRUE, end_time |-> FALSE, duration_seconds |-> FALSE,
      total_volume |-> FALSE, notes |-> FALSE, created_at |-> FALSE],
   workout_exercises |->
     [id |-> FALSE, workout_id |-> TRUE, exercise_id |-> TRUE,
      order_index |-> TRUE, notes |-> FALSE],
   workout_sets |->
     [id |-> FALSE, workout_id |-> TRUE, exercise_id |-> TRUE,
      set_number |-> TRUE, reps |-> FALSE, weight |-> FALSE,
      weight_unit |-> FALSE, completed |-> FALSE, is_warmup |-> FALSE,
      rest_time_seconds |-> FALSE, rpe |-> FALSE, notes |-> FALSE,
      created_at |-> FALSE],
   personal_records |->
     [id |-> FALSE, user_id |-> TRUE, exercise_id |-> TRUE,
      record_type |-> TRUE, value |-> TRUE, reps |-> FALSE, weight |-> FALSE,
      weight_unit |-> FALSE, workout_id |-> FALSE, achieved_at |-> FALSE]]

\* The same store with the workout_sets table of the schema contract
\* (workout_sets(id, workout_exercise_id, set_number, ...)): the table the
\* INSERT of endWorkout names.
ContractTables ==
  [InitDatabaseTables EXCEPT !.workout_sets =
     [id |-> FALSE, workout_exercise_id |-> TRUE, set_number |-> TRUE,
      reps |-> FALSE, weight |-> FALSE, weight_unit |-> FALSE,
      completed |-> FALSE, is_warmup |-> FALSE, rest_time_seconds |-> FALSE,
      rpe |-> FALSE, notes |-> FALSE]]

Schemas == {"initDatabase", "contract"}
Tables(s) == IF s = "initDatabase" THEN InitDatabaseTables ELSE ContractTables

\* The (UNIQUE or PRIMARY KEY) column sets of personal_records on which an
\* INSERT OR REPLACE can conflict: the table declares only the primary key.
PersonalRecordKeys == { {"id"} }

\* The column lists of the program's INSERT statements.
WorkoutColumns ==
  {"user_id", "start_time", "end_time", "duration_seconds", "total_volume", "notes"}
WorkoutExerciseColumns == {"workout_id", "exercise_id", "order_index", "notes"}
WorkoutSetColumns ==
  {"workout_exercise_id", "set_number", "reps", "weight", "weight_unit",
   "completed", "is_warmup", "rest_time_seconds", "rpe", "notes"}

PersonalRecordColumns ==
  {"user_id", "exercise_id", "record_type", "value", "reps", "weight",
   "weight_unit", "workout_id"}
PersonalRecordVolumeColumns ==
  {"user_id", "exercise_id", "record_type", "value", "workout_id"}

\* SQLite accepts INSERT INTO table (cols) VALUES (...): every named column
\* exists, and every NOT NULL column without a default is named and is not
\* given null (nulls: the named columns whose parameter is null).
Accepts(s, table, cols, nulls) ==
  LET t == Tables(s)[table]
  IN  /\ cols \subseteq DOMAIN t
      /\ \A c \in DOMAIN t : t[c] => (c \in cols /\ c \notin nulls)

\* ------------------------------------------------------------------- state
VARIABLES
  \* WorkoutScreen's React state
  isWorkoutActive, workoutStartTime, intervals, activeExercises, timer, workoutNotes,
  showExerciseModal, showTemplateModal, showRestTimer, currentRestTime,
  \* RestTimer's React state, and the calls of onComplete since the countdown
  \* was last started (a history variable)
  timeRemaining, isRunning, selectedTime, onCompleteCalls,
  \* usePopup's popupConfig: [visible, kind]
  popupConfig,
  \* the clock (Date.now(), in seconds)
  now,
  \* the endWorkout invocations that reached the store, in invocation order
  ends,
  \* the loadTemplate invocation in flight
  load,
  \* the store: which workout_sets table it has, the faults it has raised
  \* and its rows (a row's id is its position: AUTOINCREMENT, no deletes)
  schema, faults, workouts, workout_exercises, workout_sets, personal_records,
  \* ProfileScreen's stats
  stats,
  \* session edits made so far (bounded by MaxEdits), and the handler that
  \* made the last setActiveExercises call
  edits, lastEdit

session ==
  <<isWorkoutActive, workoutStartTime, intervals, activeExercises, timer, workoutNotes>>
modals == <<showExerciseModal, showTemplateModal>>
restTimer == <<timeRemaining, isRunning, selectedTime, onCompleteCalls>>
rest == <<showRestTimer, currentRestTime, restTimer>>
store == <<workouts, workout_exercises, workout_sets, personal_records>>
vars == <<session, modals, rest, popupConfig, now, ends, load, schema, faults,
          store, stats, edits, lastEdit>>

\* ---------------------------------------------------------------- helpers
RemoveAt(s, k) == [n \in 1..(Len(s) - 1) |-> IF n < k THEN s[n] ELSE s[n + 1]]
RECURSIVE SumSeq(_)
SumSeq(s) == IF s = <<>> THEN 0 ELSE Head(s) + SumSeq(Tail(s))
Max(S) == CHOOSE x \in S : \A y \in S : y <= x
Min(S) == CHOOSE x \in S : \A y \in S : x <= y

\* An ActiveExercise object that stands for "no object" in a closure entry.
NoObj == [exercise |-> 0, notes |-> "", sets |-> <<>>]
NoReq == [none |-> TRUE]
NoPr == [est |-> 0, reps |-> 0, weight |-> 0, vol |-> 0, exercise |-> 0]
NoIt == [att |-> TRUE, idx |-> 0, arr |-> <<>>]

\* The object a closure entry refers to.
Deref(e) == IF e.link > 0 THEN activeExercises[e.link] ELSE e.obj

\* The array the set iterator of invocation p walks, as it is now.
ItArr(p) ==
  IF p.it.att THEN Deref(p.snap[p.i]).sets
  ELSE [n \in DOMAIN p.it.arr |-> p.it.arr[n].rec]

\* The position in activeExercises of the object whose sets p iterates.
CurLink(p) == IF p.pc = "set" THEN p.snap[p.i].link ELSE 0

ZeroLinks(it) ==
  [it EXCEPT !.arr = [n \in DOMAIN it.arr |-> [it.arr[n] EXCEPT !.link = 0]]]

\* setActiveExercises(<a new list>): the session lets go of all its objects.
DetachAll(p) ==
  [p EXCEPT
     !.snap = [n \in DOMAIN p.snap |->
                 IF p.snap[n].link > 0
                   THEN [link |-> 0, obj |-> activeExercises[p.snap[n].link]]
                   ELSE p.snap[n]],
     !.it = ZeroLinks(p.it)]

\* removeExercise(k): filter builds a new list without object k.
OnRemoveExercise(p, k) ==
  [p EXCEPT
     !.snap = [n \in DOMAIN p.snap |->
                 IF p.snap[n].link = k
                   THEN [link |-> 0, obj |-> activeExercises[k]]
                 ELSE IF p.snap[n].link > k
                   THEN [p.snap[n] EXCEPT !.link = @ - 1]
                 ELSE p.snap[n]],
     !.it = IF CurLink(p) = k THEN ZeroLinks(p.it) ELSE p.it]

\* updateSet(k, j, ...): element j of object k's array is replaced, in place,
\* by a new set object; an old array no longer shares that element.
OnUpdateSet(p, k, j) ==
  IF CurLink(p) = k /\ ~p.it.att
    THEN [p EXCEPT !.it.arr = [n \in DOMAIN p.it.arr |->
                                 IF p.it.arr[n].link = j
                                   THEN [p.it.arr[n] EXCEPT !.link = 0]
                                   ELSE p.it.arr[n]]]
    ELSE p

\* removeSet(k, j): object k gets a NEW array (filter) and the set objects in
\* it are renumbered in place; an iterator keeps walking the old array.
NewLink(l, j) == IF l = 0 \/ l = j THEN 0 ELSE IF l < j THEN l ELSE l - 1
OnRemoveSet(p, k, j) ==
  IF CurLink(p) # k THEN p
  ELSE LET old == IF p.it.att
                    THEN [n \in DOMAIN activeExercises[k].sets |->
                            [rec |-> activeExercises[k].sets[n], link |-> n]]
                    ELSE p.it.arr
       IN [p EXCEPT
             !.it.att = FALSE,
             !.it.arr = [n \in DOMAIN old |->
                           LET l == NewLink(old[n].link, j)
                           IN [rec |-> IF l > 0
                                         THEN [old[n].rec EXCEPT !.set_number = l]
                                         ELSE old[n].rec,
                               link |-> l]]]

\* -------------------------------------------------------------------- Init
Init ==
  /\ isWorkoutActive = FALSE
  /\ workoutStartTime = NullTime
  /\ intervals = <<>>
  /\ activeExercises = <<>>
  /\ timer = 0
  /\ workoutNotes = ""
  /\ showExerciseModal = FALSE
  /\ showTemplateModal = FALSE
  /\ showRestTimer = FALSE
  /\ currentRestTime = 60
  /\ timeRemaining = 60
  /\ isRunning = FALSE
  /\ selectedTime = 60
  /\ onCompleteCalls = 0
  /\ popupConfig = [visible |-> FALSE, kind |-> "info"]
  /\ now = 1
  /\ ends = <<>>
  /\ load = [pc |-> "idle", t |-> 0, wasActive |-> FALSE]
  /\ schema \in Schemas
  /\ faults = 0
  /\ workouts = <<>>
  /\ workout_exercises = <<>>
  /\ workout_sets = <<>>
  /\ personal_records = <<>>
  /\ stats = [totalWorkouts |-> 0, totalSets |-> 0]
  /\ edits = 0
  /\ lastEdit = "useState"

\* ------------------------------------------------------------- the screen
\* The main screen takes touches: no Modal (exercise list, template list,
\* rest timer, popup) lies over it.
ScreenFree ==
  ~showExerciseModal /\ ~showTemplateModal /\ ~showRestTimer /\ ~popupConfig.visible

\* usePopup.showPopup, by its callers in WorkoutScreen.
ShowPopup(kind) == popupConfig' = [visible |-> TRUE, kind |-> kind]

\* The timer effect of WorkoutScreen, run when isWorkoutActive or
\* workoutStartTime changed: the cleanup clears the interval of the previous
\* run, then one interval is set if a workout is active and has a start.
\* An interval is kept as the workoutStartTime its callback closed over.
TimerEffectLeak(active, start) ==
  intervals \o (IF active /\ start # NullTime THEN <<start>> ELSE <<>>)

TimerEffect(active, start) ==
  IF active /\ start # NullTime THEN <<start>> ELSE <<>>

\* A reset that leaves the start timestamp and the timer as they are.
ResetWorkoutPartly ==
  /\ isWorkoutActive' = FALSE
  /\ activeExercises' = <<>>
  /\ workoutNotes' = ""
  /\ lastEdit' = "resetWorkout"
  /\ intervals' = TimerEffect(FALSE, workoutStartTime)
  /\ UNCHANGED <<workoutStartTime, timer>>

\* resetWorkout, on the session state.
ResetWorkout ==
  /\ isWorkoutActive' = FALSE
  /\ workoutStartTime' = NullTime
  /\ intervals' = TimerEffect(FALSE, NullTime)
  /\ activeExercises' = <<>>
  /\ timer' = 0
  /\ workoutNotes' = ""
  /\ lastEdit' = "resetWorkout"

\* startWorkout, on the session state other than the exercise list.
StartWorkoutBody ==
  /\ isWorkoutActive' = TRUE
  /\ workoutStartTime' = now
  /\ intervals' = TimerEffect(TRUE, now)
  /\ timer' = 0

\* "Start Empty Workout", rendered while no workout is active.
StartWorkout ==
  /\ ~isWorkoutActive /\ ScreenFree
  /\ StartWorkoutBody
  /\ UNCHANGED <<activeExercises, workoutNotes, modals, rest, popupConfig, now,
                 ends, load, schema, faults, store, stats, edits, lastEdit>>

\* The "+" button of the workout container, and the X of the exercise modal.
OpenExerciseModal ==
  /\ isWorkoutActive /\ ScreenFree
  /\ showExerciseModal' = TRUE
  /\ UNCHANGED <<session, showTemplateModal, rest, popupConfig, now, ends, load,
                 schema, faults, store, stats, edits, lastEdit>>

CloseExerciseModal ==
  /\ showExerciseModal /\ ~popupConfig.visible
  /\ showExerciseModal' = FALSE
  /\ UNCHANGED <<session, showTemplateModal, rest, popupConfig, now, ends, load,
                 schema, faults, store, stats, edits, lastEdit>>

\* The set addExercise gives a new exercise.
DefaultSet ==
  [set_number |-> 1, reps |-> 0, weight |-> 0, completed |-> FALSE,
   is_warmup |-> TRUE, rest_time_seconds |-> 0]

\* addExercise(exercise): a row of the exercise modal's list is pressed.
AddExercise(ex) ==
  /\ showExerciseModal /\ ~popupConfig.visible
  /\ Len(activeExercises) < MaxExercises /\ edits < MaxEdits
  /\ activeExercises' =
       Append(activeExercises, [exercise |-> ex, notes |-> "", sets |-> <<DefaultSet>>])
  /\ showExerciseModal' = FALSE
  /\ edits' = edits + 1
  /\ lastEdit' = "addExercise"
  /\ UNCHANGED <<isWorkoutActive, workoutStartTime, intervals, timer, workoutNotes,
                 showTemplateModal, rest, popupConfig, now, ends, load, schema,
                 faults, store, stats>>

\* A new set that copies nothing from the last one.
BlankSet(lastSet) ==
  [set_number |-> lastSet.set_number + 1, reps |-> 0, weight |-> 0,
   completed |-> FALSE, is_warmup |-> FALSE, rest_time_seconds |-> 0]

\* The set addSet appends to an array whose last element is lastSet.
NewSet(lastSet) ==
  [set_number |-> lastSet.set_number + 1, reps |-> lastSet.reps,
   weight |-> lastSet.weight, completed |-> FALSE, is_warmup |-> FALSE,
   rest_time_seconds |-> lastSet.rest_time_seconds]

\* addSet(exerciseIndex), from the "Add Set" button of a rendered exercise
\* that has a last set; the push is in place, so every holder of the array
\* sees it.
AddSet(k) ==
  /\ isWorkoutActive /\ ScreenFree /\ edits < MaxEdits
  /\ k \in DOMAIN activeExercises
  /\ Len(activeExercises[k].sets) \in 1..(MaxSets - 1)
  /\ activeExercises' =
       [activeExercises EXCEPT ![k].sets =
          Append(@, NewSet(@[Len(@)]))]
  /\ edits' = edits + 1
  /\ lastEdit' = "addSet"
  /\ UNCHANGED <<isWorkoutActive, workoutStartTime, intervals, timer, workoutNotes, modals,
                 rest, popupConfig, now, ends, load, schema, faults, store, stats>>

\* The set updateSet puts in place of set s: {...s, [field]: value}.
UpdatedSet(s, field, value) ==
  CASE field = "reps" -> [s EXCEPT !.reps = value]
    [] field = "weight" -> [s EXCEPT !.weight = value]
    [] field = "completed" -> [s EXCEPT !.completed = value]
    [] field = "is_warmup" -> [s EXCEPT !.is_warmup = value]

\* What the rendered inputs of set row s can pass to updateSet for a field:
\* parseInt(text) || 0, parseFloat(text) || 0, !set.completed, !set.is_warmup.
UpdateInputs(s, field) ==
  CASE field = "reps" -> RepsInputs
    [] field = "weight" -> WeightInputs
    [] field = "completed" -> {~s.completed}
    [] field = "is_warmup" -> {~s.is_warmup}

\* updateSet's "Auto-start rest timer when set is completed".
StartsRestTimer(s, field, value) ==
  field = "completed" /\ value = TRUE /\ s.rest_time_seconds > 0

\* RestTimer's effect on [visible], when visible has become true: the time
\* shown is the component's own selectedTime and the countdown is stopped.
RestTimerVisible ==
  /\ timeRemaining' = selectedTime
  /\ isRunning' = FALSE
  /\ UNCHANGED <<selectedTime, onCompleteCalls>>

\* updateSet(exerciseIndex, setIndex, field, value).
UpdateSet(k, j, field, value) ==
  /\ isWorkoutActive /\ ScreenFree /\ edits < MaxEdits
  /\ k \in DOMAIN activeExercises /\ j \in DOMAIN activeExercises[k].sets
  /\ activeExercises' =
       [activeExercises EXCEPT ![k].sets[j] = UpdatedSet(@, field, value)]
  /\ ends' = [n \in DOMAIN ends |-> OnUpdateSet(ends[n], k, j)]
  /\ IF StartsRestTimer(activeExercises[k].sets[j], field, value)
       THEN /\ currentRestTime' = activeExercises[k].sets[j].rest_time_seconds
            /\ showRestTimer' = TRUE
            /\ RestTimerVisible
       ELSE UNCHANGED rest
  /\ edits' = edits + 1
  /\ lastEdit' = "updateSet"
  /\ UNCHANGED <<isWorkoutActive, workoutStartTime, intervals, timer, workoutNotes, modals,
                 popupConfig, now, load, schema, faults, store, stats>>

\* A removeSet that filters and does not renumber.
FilterSets(sets, j) == RemoveAt(sets, j)

\* The sets removeSet leaves: filter, then set_number = index + 1.
Renumbered(sets) == [n \in DOMAIN sets |-> [sets[n] EXCEPT !.set_number = n]]
SetsAfterRemove(sets, j) == Renumbered(RemoveAt(sets, j))

\* removeSet(exerciseIndex, setIndex), from "Delete Set" of a rendered set.
RemoveSet(k, j) ==
  /\ isWorkoutActive /\ ScreenFree /\ edits < MaxEdits
  /\ k \in DOMAIN activeExercises /\ j \in DOMAIN activeExercises[k].sets
  /\ activeExercises' =
       [activeExercises EXCEPT ![k].sets = SetsAfterRemove(@, j)]
  /\ ends' = [n \in DOMAIN ends |-> OnRemoveSet(ends[n], k, j)]
  /\ edits' = edits + 1
  /\ lastEdit' = "removeSet"
  /\ UNCHANGED <<isWorkoutActive, workoutStartTime, intervals, timer, workoutNotes, modals,
                 rest, popupConfig, now, load, schema, faults, store, stats>>

\* removeExercise(exerciseIndex), from the X of a rendered exercise.
RemoveExercise(k) ==
  /\ isWorkoutActive /\ ScreenFree /\ edits < MaxEdits
  /\ k \in DOMAIN activeExercises
  /\ activeExercises' = RemoveAt(activeExercises, k)
  /\ ends' = [n \in DOMAIN ends |-> OnRemoveExercise(ends[n], k)]
  /\ edits' = edits + 1
  /\ lastEdit' = "removeExercise"
  /\ UNCHANGED <<isWorkoutActive, workoutStartTime, intervals, timer, workoutNotes, modals,
                 rest, popupConfig, now, load, schema, faults, store, stats>>

\* ------------------------------------------- the handlers, at any index
\* The handlers take their indices as they come.  Positions are 1-based
\* here: 0 stands for a negative JavaScript index and Len + 1 for the index
\* that equals the length.
\* Reading .sets of activeExercises[i] when that is undefined throws a
\* TypeError before anything is assigned.
TypeError == UNCHANGED vars

\* {...undefined}: a set object none of whose fields is there (an absent
\* number is kept as 0, an absent flag as FALSE).
AbsentSet ==
  [set_number |-> 0, reps |-> 0, weight |-> 0, completed |-> FALSE,
   is_warmup |-> FALSE, rest_time_seconds |-> 0]

\* addSet(exerciseIndex), whatever the index.
AddSetAt(k) ==
  IF k \in DOMAIN activeExercises THEN AddSet(k) ELSE TypeError

\* updateSet(exerciseIndex, setIndex, field, value), whatever the indices:
\* sets[setIndex] = {...sets[setIndex], [field]: value} assigns an element
\* at index length (the array grows by an object that has the one field),
\* and a property that is no element at a negative index.
UpdateSetAt(k, j, field, value) ==
  IF k \notin DOMAIN activeExercises THEN TypeError
  ELSE IF j \in DOMAIN activeExercises[k].sets THEN UpdateSet(k, j, field, value)
  ELSE /\ edits < MaxEdits
       /\ j = 0 \/ Len(activeExercises[k].sets) < MaxSets
       /\ activeExercises' =
            IF j = 0 THEN activeExercises
            ELSE [activeExercises EXCEPT ![k].sets =
                    Append(@, UpdatedSet(AbsentSet, field, value))]
       /\ edits' = edits + 1
       /\ lastEdit' = "updateSet"
       /\ UNCHANGED <<isWorkoutActive, workoutStartTime, intervals, timer, workoutNotes,
                      modals, rest, popupConfig, now, ends, load, schema, faults,
                      store, stats>>

\* removeExercise(exerciseIndex), whatever the index: the filter keeps
\* every object when no index matches.
RemoveExerciseAt(k) ==
  IF k \in DOMAIN activeExercises THEN RemoveExercise(k)
  ELSE /\ edits < MaxEdits
       /\ edits' = edits + 1
       /\ lastEdit' = "removeExercise"
       /\ UNCHANGED <<session, modals, rest, popupConfig, now, ends, load,
                      schema, faults, store, stats>>

\* removeSet(exerciseIndex, setIndex), whatever the indices: the filter
\* keeps every set when no index matches (the object still gets a new
\* array), and the sets are renumbered.
RemoveSetAt(k, j) ==
  IF k \notin DOMAIN activeExercises THEN TypeError
  ELSE IF j \in DOMAIN activeExercises[k].sets THEN RemoveSet(k, j)
  ELSE /\ edits < MaxEdits
       /\ activeExercises' = [activeExercises EXCEPT ![k].sets = Renumbered(@)]
       /\ ends' = [n \in DOMAIN ends |->
                     OnRemoveSet(ends[n], k, Len(activeExercises[k].sets) + 1)]
       /\ edits' = edits + 1
       /\ lastEdit' = "removeSet"
       /\ UNCHANGED <<isWorkoutActive, workoutStartTime, intervals, timer, workoutNotes,
                      modals, rest, popupConfig, now, load, schema, faults, store,
                      stats>>

\* RestTimer's onClose: setShowRestTimer(false).
CloseRestTimer ==
  /\ showRestTimer /\ ~popupConfig.visible
  /\ showRestTimer' = FALSE
  /\ UNCHANGED <<session, modals, currentRestTime, restTimer, popupConfig, now,
                 ends, load, schema, faults, store, stats, edits, lastEdit>>

\* The clock button of an exercise card: setCurrentRestTime(60);
\* setShowRestTimer(true).
OpenRestTimer ==
  /\ isWorkoutActive /\ ScreenFree
  /\ activeExercises # <<>>
  /\ currentRestTime' = 60
  /\ showRestTimer' = TRUE
  /\ RestTimerVisible
  /\ UNCHANGED <<session, modals, popupConfig, now, ends, load, schema, faults,
                 store, stats, edits, lastEdit>>

\* RestTimer's preset buttons (the first two of presetTimes) and its -10 / +10
\* buttons, all disabled while the countdown runs.
PresetTimes == {30, 60}
Deltas == {-10, 10}
SelectPresetTime(time) ==
  /\ showRestTimer /\ ~popupConfig.visible
  /\ ~isRunning
  /\ selectedTime' = time
  /\ timeRemaining' = time
  /\ UNCHANGED <<session, modals, showRestTimer, currentRestTime, isRunning,
                 onCompleteCalls, popupConfig, now, ends, load, schema, faults,
                 store, stats, edits, lastEdit>>
AdjustTime(delta) ==
  /\ showRestTimer /\ ~popupConfig.visible
  /\ ~isRunning
  /\ Max({10, selectedTime + delta}) <= Max(PresetTimes)
  /\ selectedTime' = Max({10, selectedTime + delta})
  /\ timeRemaining' = Max({10, selectedTime + delta})
  /\ UNCHANGED <<session, modals, showRestTimer, currentRestTime, isRunning,
                 onCompleteCalls, popupConfig, now, ends, load, schema, faults,
                 store, stats, edits, lastEdit>>

\* RestTimer's start / pause button.
HandleStart ==
  /\ showRestTimer /\ ~popupConfig.visible
  /\ timeRemaining' = IF timeRemaining = 0 THEN selectedTime ELSE timeRemaining
  /\ isRunning' = ~isRunning
  /\ onCompleteCalls' = IF isRunning THEN onCompleteCalls ELSE 0
  /\ UNCHANGED <<session, modals, showRestTimer, currentRestTime, selectedTime,
                 popupConfig, now, ends, load, schema, faults, store, stats,
                 edits, lastEdit>>

\* RestTimer's reset button.
HandleReset ==
  /\ showRestTimer /\ ~popupConfig.visible
  /\ isRunning' = FALSE
  /\ timeRemaining' = selectedTime
  /\ UNCHANGED <<session, modals, showRestTimer, currentRestTime, selectedTime,
                 onCompleteCalls, popupConfig, now, ends, load, schema, faults,
                 store, stats, edits, lastEdit>>

\* A countdown callback that goes on at zero: it neither stops the countdown
\* nor needs time to remain.
RestTimerRefire ==
  /\ isRunning
  /\ IF timeRemaining <= 1
       THEN /\ timeRemaining' = 0
            /\ onCompleteCalls' = onCompleteCalls + 1
            /\ showRestTimer' = FALSE
            /\ ShowPopup("restComplete")
            /\ UNCHANGED isRunning
       ELSE /\ timeRemaining' = timeRemaining - 1
            /\ UNCHANGED <<showRestTimer, isRunning, onCompleteCalls, popupConfig>>
  /\ UNCHANGED <<session, modals, currentRestTime, selectedTime, now, ends, load,
                 schema, faults, store, stats, edits, lastEdit>>

\* The callback of the interval RestTimer's effect keeps while isRunning and
\* timeRemaining > 0, once a second, with the re-render it causes: at
\* prev <= 1 it stops the countdown and calls onComplete, which is
\* WorkoutScreen's setShowRestTimer(false) and showSuccess('Rest Complete!').
RestTimerInterval ==
  /\ isRunning /\ timeRemaining > 0
  /\ IF timeRemaining <= 1
       THEN /\ isRunning' = FALSE
            /\ timeRemaining' = 0
            /\ onCompleteCalls' = onCompleteCalls + 1
            /\ showRestTimer' = FALSE
            /\ ShowPopup("restComplete")
       ELSE /\ timeRemaining' = timeRemaining - 1
            /\ UNCHANGED <<showRestTimer, isRunning, onCompleteCalls, popupConfig>>
  /\ UNCHANGED <<session, modals, currentRestTime, selectedTime, now, ends, load,
                 schema, faults, store, stats, edits, lastEdit>>

\* The clock.
Tick ==
  /\ now < MaxTime
  /\ now' = now + 1
  /\ UNCHANGED <<session, modals, rest, popupConfig, ends, load, schema, faults,
                 store, stats, edits, lastEdit>>

\* An interval callback that counts its own firings.
TimerIntervalCount ==
  /\ intervals # <<>>
  /\ timer' = timer + 1
  /\ UNCHANGED <<isWorkoutActive, workoutStartTime, intervals, activeExercises, workoutNotes,
                 modals, rest, popupConfig, now, ends, load, schema, faults, store,
                 stats, edits, lastEdit>>

\* The interval of the timer effect fires.
TimerInterval ==
  /\ intervals # <<>>
  /\ \E i \in DOMAIN intervals : timer' = now - intervals[i]
  /\ UNCHANGED <<isWorkoutActive, workoutStartTime, intervals, activeExercises, workoutNotes,
                 modals, rest, popupConfig, now, ends, load, schema, faults, store,
                 stats, edits, lastEdit>>

\* --------------------------------------------------------------- the popup
\* The popup's "Confirm" button: action.onPress() (here () => resetWorkout())
\* and then onClose (hidePopup).
ConfirmPopup ==
  /\ popupConfig.visible /\ popupConfig.kind = "confirmEnd"
  /\ ResetWorkout
  /\ popupConfig' = [popupConfig EXCEPT !.visible = FALSE]
  /\ ends' = [n \in DOMAIN ends |-> DetachAll(ends[n])]
  /\ UNCHANGED <<modals, rest, now, load, schema, faults, store, stats, edits>>

\* hidePopup: "Cancel" (no onPress), the overlay, the X, a swipe, auto close.
HidePopup ==
  /\ popupConfig.visible
  /\ popupConfig' = [popupConfig EXCEPT !.visible = FALSE]
  /\ UNCHANGED <<session, modals, rest, now, ends, load, schema, faults, store,
                 stats, edits, lastEdit>>

\* ------------------------------------------------------------ loadTemplate
\* The ActiveExercise list loadTemplate builds from the template's rows.
LoadedExercises(t) ==
  [n \in DOMAIN TemplateRows[t] |->
     LET te == TemplateRows[t][n]
     IN [exercise |-> te.exercise_id,
         notes |-> te.notes,
         sets |-> [i \in 1..te.default_sets |->
                     [set_number |-> i, reps |-> te.default_reps,
                      weight |-> te.default_weight, completed |-> FALSE,
                      is_warmup |-> (i = 1),
                      rest_time_seconds |-> te.rest_time_seconds]]]]

\* loadTemplate up to its await: the closure keeps this render's isWorkoutActive.
LoadTemplateCall(t) ==
  /\ load.pc = "idle"
  /\ load' = [pc |-> "query", t |-> t, wasActive |-> isWorkoutActive]

\* A row of the template modal is pressed: loadTemplate(item.id), modal closed.
PickTemplate(t) ==
  /\ showTemplateModal /\ ~popupConfig.visible
  /\ LoadTemplateCall(t)
  /\ showTemplateModal' = FALSE
  /\ UNCHANGED <<session, showExerciseModal, rest, popupConfig, now, ends, schema,
                 faults, store, stats, edits, lastEdit>>

\* The templates tab pushes the route with a templateId: the mount effect
\* calls loadTemplate(templateId), whatever the session's state.
RouteTemplate(t) ==
  /\ LoadTemplateCall(t)
  /\ UNCHANGED <<session, modals, rest, popupConfig, now, ends, schema, faults,
                 store, stats, edits, lastEdit>>

\* The "Use Template" / book buttons, rendered while no workout is active.
OpenTemplateModal ==
  /\ ~isWorkoutActive /\ ScreenFree
  /\ showTemplateModal' = TRUE
  /\ UNCHANGED <<session, showExerciseModal, rest, popupConfig, now, ends, load,
                 schema, faults, store, stats, edits, lastEdit>>

CloseTemplateModal ==
  /\ showTemplateModal /\ ~popupConfig.visible
  /\ showTemplateModal' = FALSE
  /\ UNCHANGED <<session, showExerciseModal, rest, popupConfig, now, ends, load,
                 schema, faults, store, stats, edits, lastEdit>>

\* loadTemplate after its await: setActiveExercises(loadedExercises), then
\* startWorkout() unless the closure's isWorkoutActive was true.
LoadTemplateDone ==
  /\ load.pc = "query"
  /\ activeExercises' = LoadedExercises(load.t)
  /\ ends' = [n \in DOMAIN ends |-> DetachAll(ends[n])]
  /\ IF ~load.wasActive
       THEN StartWorkoutBody
       ELSE UNCHANGED <<isWorkoutActive, workoutStartTime, intervals, timer>>
  /\ lastEdit' = "loadTemplate"
  /\ load' = [pc |-> "idle", t |-> 0, wasActive |-> FALSE]
  /\ UNCHANGED <<workoutNotes, modals, rest, popupConfig, now, schema, faults,
                 store, stats, edits>>

\* loadTemplate's catch: the query threw.
LoadTemplateFail ==
  /\ load.pc = "query" /\ faults < MaxFaults
  /\ faults' = faults + 1
  /\ ShowPopup("loadError")
  /\ load' = [pc |-> "idle", t |-> 0, wasActive |-> FALSE]
  /\ UNCHANGED <<session, modals, rest, now, ends, schema, store, stats, edits, lastEdit>>

\* -------------------------------------------------------------- endWorkout
\* "Calculate total volume": completed sets only.
SetVolume(s) == s.weight * s.reps
\* A total that leaves the warm-up sets out.
TotalVolumeWorking(exs) ==
  SumSeq([n \in DOMAIN exs |->
            SumSeq([m \in DOMAIN exs[n].sets |->
                      IF exs[n].sets[m].completed /\ ~exs[n].sets[m].is_warmup
                        THEN SetVolume(exs[n].sets[m]) ELSE 0])])
TotalVolume(exs) ==
  SumSeq([n \in DOMAIN exs |->
            SumSeq([m \in DOMAIN exs[n].sets |->
                      IF exs[n].sets[m].completed
                        THEN SetVolume(exs[n].sets[m]) ELSE 0])])

\* The parameters of the three INSERTs, evaluated when runAsync is called.
WorkoutReq ==
  [user_id |-> User.id, start_time |-> workoutStartTime, end_time |-> now,
   duration_seconds |-> now - workoutStartTime,
   total_volume |-> TotalVolume(activeExercises), notes |-> workoutNotes]
\* An exercise row whose order_index counts from one.
ExerciseReqFromOne(p, i) ==
  [workout_id |-> p.workoutId, exercise_id |-> Deref(p.snap[i]).exercise,
   order_index |-> i, notes |-> Deref(p.snap[i]).notes]
ExerciseReq(p, i) ==
  [workout_id |-> p.workoutId, exercise_id |-> Deref(p.snap[i]).exercise,
   order_index |-> i - 1, notes |-> Deref(p.snap[i]).notes]
SetReq(p, s) ==
  [workout_exercise_id |-> p.weId, set_number |-> s.set_number, reps |-> s.reps,
   weight |-> s.weight, weight_unit |-> User.preferred_weight_unit,
   completed |-> s.completed, is_warmup |-> s.is_warmup,
   rest_time_seconds |-> s.rest_time_seconds]
\* set.rest_time_seconds || null, set.rpe || null (rpe is never set)
SetNulls(req) ==
  {"rpe"} \cup (IF req.rest_time_seconds = 0 THEN {"rest_time_seconds"} ELSE {})

\* An invocation that has ended: by resetWorkout, or in endWorkout's catch.
Ended(pc, w) ==
  [pc |-> pc, snap |-> <<>>, atEnd |-> <<>>, req |-> NoReq, workoutId |-> w,
   i |-> 0, weId |-> 0, it |-> NoIt, prj |-> 0, pr |-> NoPr]

\* endWorkout up to its first await: the closure's exercise array (one link
\* per object of this render's list) and the pending INSERT INTO workouts.
\* atEnd is a history field: the value of the session's list at this moment.
NewEnd ==
  [pc |-> "hdr",
   snap |-> [n \in DOMAIN activeExercises |-> [link |-> n, obj |-> NoObj]],
   atEnd |-> activeExercises,
   req |-> WorkoutReq, workoutId |-> 0, i |-> 0, weId |-> 0, it |-> NoIt,
   prj |-> 0, pr |-> NoPr]

\* A filter that keeps the completed warm-up sets, then checkPersonalRecords'
\* filter, maximum and order of one exercise's sets.
SetsCompleted(sets) == SelectSeq(sets, LAMBDA s : s.completed)
CompletedSets(sets) == SelectSeq(sets, LAMBDA s : s.completed /\ ~s.is_warmup)
MaxWeight(cs) == Max({cs[n].weight : n \in DOMAIN cs})
\* The last set of maximum weight instead of the first.
LastMaxWeightSet(cs) == cs[Max({n \in DOMAIN cs : cs[n].weight = MaxWeight(cs)})]
MaxWeightSet(cs) == cs[Min({n \in DOMAIN cs : cs[n].weight = MaxWeight(cs)})]
\* Epley: maxWeight * (1 + reps / 30), times thirty.
Estimated1RM(cs) == MaxWeight(cs) * (30 + MaxWeightSet(cs).reps)
ExerciseVolume(cs) == SumSeq([n \in DOMAIN cs |-> SetVolume(cs[n])])

\* checkPersonalRecords from exercise j on: the next exercise with a completed
\* working set (its 1RM query is issued), or the end of the loop.
CheckFrom(p, j) ==
  LET todo == {m \in j..Len(p.snap) : CompletedSets(Deref(p.snap[m]).sets) # <<>>}
  IN IF todo = {}
       THEN [p EXCEPT !.pc = "finish"]
       ELSE LET m == Min(todo)
                cs == CompletedSets(Deref(p.snap[m]).sets)
            IN [p EXCEPT
                  !.pc = "get1rm", !.prj = m, !.it = NoIt, !.req = NoReq,
                  !.pr = [est |-> Estimated1RM(cs), reps |-> MaxWeightSet(cs).reps,
                          weight |-> MaxWeight(cs), vol |-> ExerciseVolume(cs),
                          exercise |-> Deref(p.snap[m]).exercise]]

\* The loops of endWorkout after an INSERT returned: the next set of the
\* exercise (the iterator reads the array's length as it is now), the next
\* exercise, or checkPersonalRecords.
Continue(p) ==
  LET arr == ItArr(p)
  IN IF p.it.idx < Len(arr)
       THEN [p EXCEPT !.pc = "set", !.req = SetReq(p, arr[p.it.idx + 1])]
     ELSE IF p.i < Len(p.snap)
       THEN [p EXCEPT !.pc = "ex", !.i = p.i + 1, !.it = NoIt,
                      !.req = ExerciseReq(p, p.i + 1)]
     ELSE CheckFrom(p, 1)

\* Invocation n goes on as q; at the end of the try block it shows the
\* completion message and calls resetWorkout().
Resume(n, q) ==
  IF q.pc = "finish"
    THEN /\ ShowPopup("workoutComplete")
         /\ ResetWorkout
         /\ ends' = [m \in DOMAIN ends |->
                       IF m = n THEN Ended("done", q.workoutId)
                                ELSE DetachAll(ends[m])]
    ELSE /\ ends' = [ends EXCEPT ![n] = q]
         /\ UNCHANGED <<session, popupConfig, lastEdit>>

\* An End on a session without exercises that discards it without asking.
EndWorkoutDiscard ==
  /\ isWorkoutActive /\ ScreenFree /\ workoutStartTime # NullTime
  /\ Len(activeExercises) = 0
  /\ ResetWorkout
  /\ ends' = [n \in DOMAIN ends |-> DetachAll(ends[n])]
  /\ UNCHANGED <<modals, rest, popupConfig, now, load, schema, faults, store,
                 stats, edits>>

\* The End button on a session without exercises: showConfirmation.
EndWorkoutEmpty ==
  /\ isWorkoutActive /\ ScreenFree /\ workoutStartTime # NullTime
  /\ Len(activeExercises) = 0
  /\ ShowPopup("confirmEnd")
  /\ UNCHANGED <<session, modals, rest, now, ends, load, schema, faults, store,
                 stats, edits, lastEdit>>

\* The End button on a session with exercises.
EndWorkout ==
  /\ isWorkoutActive /\ ScreenFree /\ workoutStartTime # NullTime
  /\ Len(activeExercises) # 0
  /\ Len(ends) < MaxEnds
  /\ ends' = Append(ends, NewEnd)
  /\ UNCHANGED <<session, modals, rest, popupConfig, now, load, schema, faults,
                 store, stats, edits, lastEdit>>

\* INSERT INTO workouts returned.
InsertWorkout(n) ==
  /\ ends[n].pc = "hdr"
  /\ Accepts(schema, "workouts", WorkoutColumns, {})
  /\ workouts' = Append(workouts, ends[n].req)
  /\ LET p == [ends[n] EXCEPT !.workoutId = Len(workouts) + 1, !.i = 1]
     IN ends' = [ends EXCEPT ![n] = [p EXCEPT !.pc = "ex", !.req = ExerciseReq(p, 1)]]
  /\ UNCHANGED <<session, modals, rest, popupConfig, now, load, schema, faults,
                 workout_exercises, workout_sets, personal_records, stats, edits, lastEdit>>

\* INSERT INTO workout_exercises returned.
InsertWorkoutExercise(n) ==
  /\ ends[n].pc = "ex"
  /\ Accepts(schema, "workout_exercises", WorkoutExerciseColumns, {})
  /\ workout_exercises' = Append(workout_exercises, ends[n].req)
  /\ Resume(n, Continue([ends[n] EXCEPT !.weId = Len(workout_exercises) + 1,
                                        !.pc = "set", !.it = NoIt]))
  /\ UNCHANGED <<modals, rest, now, load, schema, faults, workouts, workout_sets,
                 personal_records, stats, edits>>

\* INSERT INTO workout_sets returned.
InsertWorkoutSet(n) ==
  /\ ends[n].pc = "set"
  /\ Accepts(schema, "workout_sets", WorkoutSetColumns, SetNulls(ends[n].req))
  /\ workout_sets' = Append(workout_sets, ends[n].req)
  /\ Resume(n, Continue([ends[n] EXCEPT !.it.idx = @ + 1]))
  /\ UNCHANGED <<modals, rest, now, load, schema, faults, workouts,
                 workout_exercises, personal_records, stats, edits>>

\* Whether the store accepts the INSERT invocation p has pending.
AcceptsPending(p) ==
  CASE p.pc = "hdr" -> Accepts(schema, "workouts", WorkoutColumns, {})
    [] p.pc = "ex" -> Accepts(schema, "workout_exercises", WorkoutExerciseColumns, {})
    [] p.pc = "set" -> Accepts(schema, "workout_sets", WorkoutSetColumns, SetNulls(p.req))
    [] p.pc = "put1rm" -> Accepts(schema, "personal_records", PersonalRecordColumns, {})
    [] p.pc = "putvol" -> Accepts(schema, "personal_records", PersonalRecordVolumeColumns, {})
    [] OTHER -> TRUE

\* A statement throws: the store rejects it, or a storage fault.
Throws(p) ==
  /\ ~AcceptsPending(p) \/ faults < MaxFaults
  /\ faults' = IF AcceptsPending(p) THEN faults + 1 ELSE faults

\* A catch that gives the session up (resetWorkout) instead of keeping it.
EndCatchReset(n) ==
  /\ ends[n].pc \in {"hdr", "ex", "set"}
  /\ Throws(ends[n])
  /\ ShowPopup("saveError")
  /\ ResetWorkout
  /\ ends' = [m \in DOMAIN ends |->
                IF m = n THEN Ended("failed", ends[n].workoutId)
                         ELSE DetachAll(ends[m])]
  /\ UNCHANGED <<modals, rest, now, load, schema, store, stats, edits>>

\* A catch that goes on to checkPersonalRecords after a failed INSERT.
EndCatchEvaluate(n) ==
  /\ ends[n].pc \in {"hdr", "ex", "set"}
  /\ Throws(ends[n])
  /\ Resume(n, CheckFrom(ends[n], 1))
  /\ UNCHANGED <<modals, rest, now, load, schema, store, stats, edits>>

\* endWorkout's catch: one of its three INSERTs threw.
EndCatch(n) ==
  /\ ends[n].pc \in {"hdr", "ex", "set"}
  /\ Throws(ends[n])
  /\ ShowPopup("saveError")
  /\ ends' = [ends EXCEPT ![n] = Ended("failed", ends[n].workoutId)]
  /\ UNCHANGED <<session, modals, rest, now, load, schema, store, stats, edits, lastEdit>>

\* --------------------------------------------------- checkPersonalRecords
\* getFirstAsync('SELECT value FROM personal_records WHERE user_id = ? AND
\* exercise_id = ? AND record_type = ...'): the first matching row, in rowid
\* order; 0 when there is none.
FirstRecord(type, ex) ==
  LET hits == {n \in DOMAIN personal_records :
                 /\ personal_records[n].user_id = User.id
                 /\ personal_records[n].exercise_id = ex
                 /\ personal_records[n].record_type = type}
  IN IF hits = {} THEN 0 ELSE Min(hits)

\* "if (!existing || candidate > existing.value)"
IsRecord(candidate, type, ex) ==
  \/ FirstRecord(type, ex) = 0
  \/ candidate > personal_records[FirstRecord(type, ex)].value

\* INSERT OR REPLACE: the rows that hold the new row's value on every column
\* of some UNIQUE / PRIMARY KEY of the table are deleted, then the row is
\* inserted.  The statements name no id.
Conflicts(rows, row, named) ==
  {n \in DOMAIN rows :
     \E key \in PersonalRecordKeys :
        key \subseteq named /\ \A c \in key : rows[n][c] = row[c]}
InsertOrReplace(rows, row, named) ==
  Append(SelectSeq(rows, LAMBDA r : \A n \in Conflicts(rows, row, named) : rows[n] # r),
         row)

\* The rows checkPersonalRecords writes (a volume row names no reps, weight
\* or weight_unit: they are NULL, kept here as 0 and "null").
Record1RM(p) ==
  [user_id |-> User.id, exercise_id |-> p.pr.exercise, record_type |-> "1RM",
   value |-> p.pr.est, reps |-> p.pr.reps, weight |-> p.pr.weight,
   weight_unit |-> User.preferred_weight_unit, workout_id |-> p.workoutId]
RecordVolume(p) ==
  [user_id |-> User.id, exercise_id |-> p.pr.exercise, record_type |-> "volume",
   value |-> p.pr.vol, reps |-> 0, weight |-> 0, weight_unit |-> Null,
   workout_id |-> p.workoutId]

\* The 1RM query returned.
Get1RM(n) ==
  /\ ends[n].pc = "get1rm"
  /\ ends' = [ends EXCEPT ![n].pc =
                IF IsRecord(ends[n].pr.est, "1RM", ends[n].pr.exercise)
                  THEN "put1rm" ELSE "getvol"]
  /\ UNCHANGED <<session, modals, rest, popupConfig, now, load, schema, faults,
                 store, stats, edits, lastEdit>>

\* The 1RM INSERT OR REPLACE returned: showSuccess('New Personal Record!').
Put1RM(n) ==
  /\ ends[n].pc = "put1rm"
  /\ AcceptsPending(ends[n])
  /\ personal_records' =
       InsertOrReplace(personal_records, Record1RM(ends[n]), PersonalRecordColumns)
  /\ ShowPopup("personalRecord")
  /\ ends' = [ends EXCEPT ![n].pc = "getvol"]
  /\ UNCHANGED <<session, modals, rest, now, load, schema, faults, workouts,
                 workout_exercises, workout_sets, stats, edits, lastEdit>>

\* The volume query returned.
GetVolume(n) ==
  /\ ends[n].pc = "getvol"
  /\ IF IsRecord(ends[n].pr.vol, "volume", ends[n].pr.exercise)
       THEN /\ ends' = [ends EXCEPT ![n].pc = "putvol"]
            /\ UNCHANGED <<session, popupConfig, lastEdit>>
       ELSE Resume(n, CheckFrom(ends[n], ends[n].prj + 1))
  /\ UNCHANGED <<modals, rest, now, load, schema, faults, store, stats, edits>>

\* The volume INSERT OR REPLACE returned.
PutVolume(n) ==
  /\ ends[n].pc = "putvol"
  /\ AcceptsPending(ends[n])
  /\ personal_records' =
       InsertOrReplace(personal_records, RecordVolume(ends[n]),
                       PersonalRecordVolumeColumns)
  /\ Resume(n, CheckFrom(ends[n], ends[n].prj + 1))
  /\ UNCHANGED <<modals, rest, now, load, schema, faults, workouts,
                 workout_exercises, workout_sets, stats, edits>>

\* A checkPersonalRecords without its catch: the error reaches endWorkout's.
RecordThrow(n) ==
  /\ ends[n].pc \in {"get1rm", "put1rm", "getvol", "putvol"}
  /\ Throws(ends[n])
  /\ ShowPopup("saveError")
  /\ ends' = [ends EXCEPT ![n] = Ended("failed", ends[n].workoutId)]
  /\ UNCHANGED <<session, modals, rest, now, load, schema, store, stats, edits, lastEdit>>

\* checkPersonalRecords' catch: a query or an insert threw; it logs and
\* returns, and endWorkout goes on to its completion message and reset.
RecordCatch(n) ==
  /\ ends[n].pc \in {"get1rm", "put1rm", "getvol", "putvol"}
  /\ Throws(ends[n])
  /\ Resume(n, [ends[n] EXCEPT !.pc = "finish"])
  /\ UNCHANGED <<modals, rest, now, load, schema, store, stats, edits>>

\* ------------------------------------------------------------- the reader
\* The workouts rows whose exercise and set rows are not all in the store:
\* their writer is between two inserts, or gave up in its catch.
PartialWorkouts ==
  {ends[n].workoutId : n \in {m \in DOMAIN ends :
                               /\ ends[m].workoutId > 0
                               /\ ends[m].pc \in {"ex", "set", "failed"}}}

\* ProfileScreen.loadStats, its queries answered at one instant: COUNT(*) of
\* the user's workouts rows, then the completed workout_sets rows joined ON
\* ws.workout_id = w.id.  A store whose workout_sets has no workout_id makes
\* the join throw: the catch logs and setStats is not reached.
LoadStats ==
  /\ stats' =
       IF "workout_id" \in DOMAIN Tables(schema).workout_sets
         THEN [totalWorkouts |-> Len(workouts),
               totalSets |-> Len(SelectSeq(workout_sets, LAMBDA r : r.completed))]
         ELSE stats
  /\ UNCHANGED <<session, modals, rest, popupConfig, now, ends, load, schema,
                 faults, store, edits, lastEdit>>

\* ------------------------------------------------- DatabaseProvider mount
\* The application starts again: DatabaseProvider's mount effect runs
\* initDatabase, which drops every table and creates them anew, and every
\* component starts from its initial state; calls in flight are gone.
InitDatabase ==
  /\ workouts' = <<>>
  /\ workout_exercises' = <<>>
  /\ workout_sets' = <<>>
  /\ personal_records' = <<>>
  /\ schema' = "initDatabase"
  /\ isWorkoutActive' = FALSE
  /\ workoutStartTime' = NullTime
  /\ intervals' = <<>>
  /\ activeExercises' = <<>>
  /\ timer' = 0
  /\ workoutNotes' = ""
  /\ showExerciseModal' = FALSE
  /\ showTemplateModal' = FALSE
  /\ showRestTimer' = FALSE
  /\ currentRestTime' = 60
  /\ timeRemaining' = 60
  /\ isRunning' = FALSE
  /\ selectedTime' = 60
  /\ onCompleteCalls' = 0
  /\ popupConfig' = [visible |-> FALSE, kind |-> "info"]
  /\ ends' = <<>>
  /\ load' = [pc |-> "idle", t |-> 0, wasActive |-> FALSE]
  /\ stats' = [totalWorkouts |-> 0, totalSets |-> 0]
  /\ edits' = 0
  /\ lastEdit' = "useState"
  /\ UNCHANGED <<now, faults>>

\* -------------------------------------------------------------------- Next
Next ==
  \/ StartWorkout
  \/ OpenExerciseModal
  \/ CloseExerciseModal
  \/ \E ex \in ExerciseIds : AddExercise(ex)
  \/ \E k \in DOMAIN activeExercises : AddSet(k)
  \/ \E k \in DOMAIN activeExercises : \E j \in DOMAIN activeExercises[k].sets :
        \E f \in {"reps", "weight", "completed", "is_warmup"} :
           \E v \in UpdateInputs(activeExercises[k].sets[j], f) : UpdateSet(k, j, f, v)
  \/ \E k \in DOMAIN activeExercises : \E j \in DOMAIN activeExercises[k].sets :
        RemoveSet(k, j)
  \/ \E k \in DOMAIN activeExercises : RemoveExercise(k)
  \/ CloseRestTimer
  \/ OpenRestTimer
  \/ \E time \in PresetTimes : SelectPresetTime(time)
  \/ \E delta \in Deltas : AdjustTime(delta)
  \/ HandleStart
  \/ HandleReset
  \/ RestTimerInterval
  \/ Tick
  \/ TimerInterval
  \/ ConfirmPopup
  \/ HidePopup
  \/ OpenTemplateModal
  \/ CloseTemplateModal
  \/ \E t \in TemplateIds : PickTemplate(t)
  \/ \E t \in TemplateIds : RouteTemplate(t)
  \/ LoadTemplateDone
  \/ LoadTemplateFail
  \/ EndWorkoutEmpty
  \/ EndWorkout
  \/ \E n \in DOMAIN ends : InsertWorkout(n)
  \/ \E n \in DOMAIN ends : InsertWorkoutExercise(n)
  \/ \E n \in DOMAIN ends : InsertWorkoutSet(n)
  \/ \E n \in DOMAIN ends : EndCatch(n)
  \/ \E n \in DOMAIN ends : Get1RM(n)
  \/ \E n \in DOMAIN ends : Put1RM(n)
  \/ \E n \in DOMAIN ends : GetVolume(n)
  \/ \E n \in DOMAIN ends : PutVolume(n)
  \/ \E n \in DOMAIN ends : RecordCatch(n)
  \/ LoadStats
  \/ InitDatabase

Spec == Init /\ [][Next]_vars

\* ---------------------------------------------------------- the subsystems
\* The endWorkout invocations that have not ended.
Pending == {n \in DOMAIN ends : ends[n].pc \notin {"done", "failed"}}

\* The state after construction on the store initDatabase creates, and on
\* the store of the schema contract.
InitCreated == Init /\ schema = "initDatabase"
InitContract == Init /\ schema = "contract"

\* The session editor: the handlers that build the exercise list.
NextSession ==
  \/ StartWorkout
  \/ OpenExerciseModal
  \/ CloseExerciseModal
  \/ \E ex \in ExerciseIds : AddExercise(ex)
  \/ \E k \in DOMAIN activeExercises : AddSet(k)
  \/ \E k \in DOMAIN activeExercises : \E j \in DOMAIN activeExercises[k].sets :
        \E f \in {"reps", "weight", "completed", "is_warmup"} :
           \E v \in UpdateInputs(activeExercises[k].sets[j], f) : UpdateSet(k, j, f, v)
  \/ \E k \in DOMAIN activeExercises : \E j \in DOMAIN activeExercises[k].sets :
        RemoveSet(k, j)
  \/ \E k \in DOMAIN activeExercises : RemoveExercise(k)

SpecSession == InitCreated /\ [][NextSession]_vars

\* The steps of an endWorkout invocation after its first await.
NextSave ==
  \/ \E n \in DOMAIN ends : InsertWorkout(n)
  \/ \E n \in DOMAIN ends : InsertWorkoutExercise(n)
  \/ \E n \in DOMAIN ends : InsertWorkoutSet(n)
  \/ \E n \in DOMAIN ends : EndCatch(n)
  \/ \E n \in DOMAIN ends : Get1RM(n)
  \/ \E n \in DOMAIN ends : Put1RM(n)
  \/ \E n \in DOMAIN ends : GetVolume(n)
  \/ \E n \in DOMAIN ends : PutVolume(n)
  \/ \E n \in DOMAIN ends : RecordCatch(n)

\* Ending a workout: the editor (at work while a save is pending, too),
\* endWorkout, the popup and the statistics reader.  End is pressed when no
\* earlier save is pending.
NextEnd ==
  \/ NextSession
  \/ EndWorkoutEmpty
  \/ Pending = {} /\ EndWorkout
  \/ NextSave
  \/ ConfirmPopup
  \/ HidePopup
  \/ LoadStats

SpecEnd == Init /\ [][NextEnd]_vars

\* Ending a workout on the store initDatabase creates: its workout_sets
\* table has no workout_exercise_id, so a save fails at its first set (or
\* earlier, at a storage fault) and completes only when no exercise has a
\* set.  The user adds, ticks, re-labels and deletes, at any moment.
NextFail ==
  \/ StartWorkout
  \/ OpenExerciseModal
  \/ CloseExerciseModal
  \/ \E ex \in ExerciseIds : AddExercise(ex)
  \/ \E k \in DOMAIN activeExercises : AddSet(k)
  \/ \E k \in DOMAIN activeExercises : \E j \in DOMAIN activeExercises[k].sets :
        \E f \in {"completed", "is_warmup"} :
           \E v \in UpdateInputs(activeExercises[k].sets[j], f) : UpdateSet(k, j, f, v)
  \/ \E k \in DOMAIN activeExercises : \E j \in DOMAIN activeExercises[k].sets :
        RemoveSet(k, j)
  \/ \E k \in DOMAIN activeExercises : RemoveExercise(k)
  \/ EndWorkoutEmpty
  \/ Pending = {} /\ EndWorkout
  \/ \E n \in DOMAIN ends : InsertWorkout(n)
  \/ \E n \in DOMAIN ends : InsertWorkoutExercise(n)
  \/ \E n \in DOMAIN ends : EndCatch(n)
  \/ ConfirmPopup
  \/ HidePopup

SpecFail == InitCreated /\ [][NextFail]_vars

\* Workouts from templates, one after the other, on a store that has the
\* workout_sets table endWorkout writes and raises no fault: the personal
\* records.  The user ticks sets off, and does so and presses End only when
\* no save is pending.
NextRecords ==
  \/ OpenTemplateModal
  \/ CloseTemplateModal
  \/ \E t \in TemplateIds : PickTemplate(t)
  \/ LoadTemplateDone
  \/ \E k \in DOMAIN activeExercises : \E j \in DOMAIN activeExercises[k].sets :
        Pending = {} /\ UpdateSet(k, j, "completed", ~activeExercises[k].sets[j].completed)
  \/ CloseRestTimer
  \/ Pending = {} /\ EndWorkout
  \/ \E n \in DOMAIN ends : InsertWorkout(n)
  \/ \E n \in DOMAIN ends : InsertWorkoutExercise(n)
  \/ \E n \in DOMAIN ends : InsertWorkoutSet(n)
  \/ \E n \in DOMAIN ends : Get1RM(n)
  \/ \E n \in DOMAIN ends : Put1RM(n)
  \/ \E n \in DOMAIN ends : GetVolume(n)
  \/ \E n \in DOMAIN ends : PutVolume(n)
  \/ HidePopup

SpecRecords == InitContract /\ [][NextRecords]_vars

\* Starting a workout: the Start button, the template list, a template route
\* pushed from the templates tab, the editor and the clock.
NextStart ==
  \/ NextSession
  \/ OpenTemplateModal
  \/ CloseTemplateModal
  \/ \E t \in TemplateIds : PickTemplate(t)
  \/ \E t \in TemplateIds : RouteTemplate(t)
  \/ LoadTemplateDone
  \/ LoadTemplateFail
  \/ CloseRestTimer
  \/ HidePopup
  \/ Tick
  \/ TimerInterval

SpecStart == InitCreated /\ [][NextStart]_vars

\* One session after the other on a store that accepts every statement and
\* raises no fault: start, add exercise 1, End (or End with no exercise and
\* Confirm), and start again, while the clock and the elapsed-time interval
\* go on.
NextReuse ==
  \/ StartWorkout
  \/ OpenExerciseModal
  \/ AddExercise(1)
  \/ EndWorkoutEmpty
  \/ ConfirmPopup
  \/ HidePopup
  \/ Pending = {} /\ EndWorkout
  \/ \E n \in DOMAIN ends : InsertWorkout(n)
  \/ \E n \in DOMAIN ends : InsertWorkoutExercise(n)
  \/ \E n \in DOMAIN ends : InsertWorkoutSet(n)
  \/ Tick
  \/ TimerInterval

SpecReuse == InitContract /\ [][NextReuse]_vars


\* The handlers called with any index, in range or not, on a session built
\* with the editor.
Positions == 0..(MaxExercises + 1)
SetPositions == 0..(MaxSets + 1)
NextIndex ==
  \/ StartWorkout
  \/ OpenExerciseModal
  \/ \E ex \in ExerciseIds : AddExercise(ex)
  \/ \E k \in Positions : AddSetAt(k)
  \/ \E k \in Positions : \E j \in SetPositions :
        \E f \in {"reps", "completed"} : \E v \in UpdateInputs(AbsentSet, f) :
           UpdateSetAt(k, j, f, v)
  \/ \E k \in Positions : RemoveExerciseAt(k)
  \/ \E k \in Positions : \E j \in SetPositions : RemoveSetAt(k, j)

SpecIndex == InitCreated /\ [][NextIndex]_vars


\* Ending one workout whose session the editor has built: one exercise,
\* its sets any the inputs can make (addExercise, addSet, updateSet on each
\* field, "Toggle Warmup"), on the store of the schema contract.
EvalReps == {5, 8}
EvalWeights == {80, 100}
EvalSet(n, reps, weight, completed, warmup) ==
  [set_number |-> n, reps |-> reps, weight |-> weight, completed |-> completed,
   is_warmup |-> warmup, rest_time_seconds |-> 0]
EvalSets ==
  UNION {
    {[n \in 1..len |-> EvalSet(n, f[n][1], f[n][2], f[n][3], f[n][4])] :
       f \in [1..len -> EvalReps \X EvalWeights \X BOOLEAN \X BOOLEAN]} :
    len \in 1..MaxSets}

\* What the session holds besides its first exercise: nothing, or a second
\* exercise with one set.
EvalOthers ==
  {<<>>} \cup
  {<<[exercise |-> 2, notes |-> "",
      sets |-> <<EvalSet(1, 5, 100, completed, warmup)>>]>> :
     completed \in BOOLEAN, warmup \in BOOLEAN}

InitEvaluate ==
  /\ isWorkoutActive = TRUE
  /\ workoutStartTime = 1
  /\ intervals = <<1>>
  /\ \E sets \in EvalSets, others \in EvalOthers :
        activeExercises = <<[exercise |-> 1, notes |-> "", sets |-> sets]>> \o others
  /\ timer = 0
  /\ workoutNotes = ""
  /\ showExerciseModal = FALSE
  /\ showTemplateModal = FALSE
  /\ showRestTimer = FALSE
  /\ currentRestTime = 60
  /\ timeRemaining = 60
  /\ isRunning = FALSE
  /\ selectedTime = 60
  /\ onCompleteCalls = 0
  /\ popupConfig = [visible |-> FALSE, kind |-> "info"]
  /\ now = 1
  /\ ends = <<>>
  /\ load = [pc |-> "idle", t |-> 0, wasActive |-> FALSE]
  /\ schema = "contract"
  /\ faults = 0
  /\ workouts = <<>>
  /\ workout_exercises = <<>>
  /\ workout_sets = <<>>
  /\ personal_records = <<>>
  /\ stats = [totalWorkouts |-> 0, totalSets |-> 0]
  /\ edits = 0
  /\ lastEdit = "updateSet"

NextEvaluate ==
  \/ Pending = {} /\ EndWorkout
  \/ NextSave

SpecEvaluate == InitEvaluate /\ [][NextEvaluate]_vars

\* The rest timer on an active session: template 1 was loaded (two sets that
\* rest 60 seconds) and exercise 2 added (a set without rest seconds).
InitRest ==
  /\ isWorkoutActive = TRUE
  /\ workoutStartTime = 1
  /\ intervals = <<1>>
  /\ activeExercises =
       LoadedExercises(1) \o <<[exercise |-> 2, notes |-> "", sets |-> <<DefaultSet>>]>>
  /\ timer = 0
  /\ workoutNotes = ""
  /\ showExerciseModal = FALSE
  /\ showTemplateModal = FALSE
  /\ showRestTimer = FALSE
  /\ currentRestTime = 60
  /\ timeRemaining = 60
  /\ isRunning = FALSE
  /\ selectedTime = 60
  /\ onCompleteCalls = 0
  /\ popupConfig = [visible |-> FALSE, kind |-> "info"]
  /\ now = 1
  /\ ends = <<>>
  /\ load = [pc |-> "idle", t |-> 0, wasActive |-> FALSE]
  /\ schema = "initDatabase"
  /\ faults = 0
  /\ workouts = <<>>
  /\ workout_exercises = <<>>
  /\ workout_sets = <<>>
  /\ personal_records = <<>>
  /\ stats = [totalWorkouts |-> 0, totalSets |-> 0]
  /\ edits = 0
  /\ lastEdit = "addExercise"

NextRest ==
  \/ \E k \in 1..MaxExercises, j \in 1..MaxSets :
        \E value \in BOOLEAN : UpdateSet(k, j, "completed", value)
  \/ OpenRestTimer
  \/ CloseRestTimer
  \/ \E time \in PresetTimes : SelectPresetTime(time)
  \/ \E delta \in Deltas : AdjustTime(delta)
  \/ HandleStart
  \/ HandleReset
  \/ RestTimerInterval
  \/ HidePopup

SpecRest == InitRest /\ [][NextRest]_vars

\* Sets added, edited and deleted on the session of template 1 and exercise 2.
NextAppend ==
  \/ \E k \in DOMAIN activeExercises : AddSet(k)
  \/ \E k \in DOMAIN activeExercises : \E j \in DOMAIN activeExercises[k].sets :
        \E f \in {"reps", "weight"} :
           \E v \in UpdateInputs(activeExercises[k].sets[j], f) : UpdateSet(k, j, f, v)
  \/ \E k \in DOMAIN activeExercises : \E j \in DOMAIN activeExercises[k].sets :
        RemoveSet(k, j)

SpecAppend == InitRest /\ [][NextAppend]_vars

\* End pressed again and again on that one session, on the store initDatabase
\* creates: while an earlier invocation awaits an insert, or after it failed
\* and its message was dismissed.  Nothing starts another session.
NextRetry ==
  \/ EndWorkout
  \/ \E n \in DOMAIN ends : InsertWorkout(n)
  \/ \E n \in DOMAIN ends : InsertWorkoutExercise(n)
  \/ \E n \in DOMAIN ends : EndCatch(n)
  \/ HidePopup

SpecRetry == InitRest /\ [][NextRetry]_vars

\* The scenario start() -> addExercise(exercise 1) -> addSet(0), then the
\* reps, weight and check inputs of its set rows, then End on a store that
\* accepts every statement.  The first state is the one the three calls leave.
ScenarioReps == 8
ScenarioWeight == 80
InitScenario ==
  /\ isWorkoutActive = TRUE
  /\ workoutStartTime = 1
  /\ intervals = <<1>>
  /\ activeExercises =
       <<[exercise |-> 1, notes |-> "",
          sets |-> Append(<<DefaultSet>>, NewSet(DefaultSet))]>>
  /\ timer = 0
  /\ workoutNotes = ""
  /\ showExerciseModal = FALSE
  /\ showTemplateModal = FALSE
  /\ showRestTimer = FALSE
  /\ currentRestTime = 60
  /\ timeRemaining = 60
  /\ isRunning = FALSE
  /\ selectedTime = 60
  /\ onCompleteCalls = 0
  /\ popupConfig = [visible |-> FALSE, kind |-> "info"]
  /\ now = 1
  /\ ends = <<>>
  /\ load = [pc |-> "idle", t |-> 0, wasActive |-> FALSE]
  /\ schema = "contract"
  /\ faults = 0
  /\ workouts = <<>>
  /\ workout_exercises = <<>>
  /\ workout_sets = <<>>
  /\ personal_records = <<>>
  /\ stats = [totalWorkouts |-> 0, totalSets |-> 0]
  /\ edits = 0
  /\ lastEdit = "addSet"

NextScenario ==
  \/ \E j \in 1..MaxSets :
        \/ UpdateSet(1, j, "reps", ScenarioReps)
        \/ UpdateSet(1, j, "weight", ScenarioWeight)
        \/ Pending = {} /\ UpdateSet(1, j, "completed", TRUE)
  \/ Pending = {} /\ EndWorkout
  \/ NextSave

SpecScenario == InitScenario /\ [][NextScenario]_vars

\* The scenario session saved, with the application restarted at any moment.
NextRestart ==
  \/ NextScenario
  \/ HidePopup
  \/ InitDatabase

SpecRestart == InitScenario /\ [][NextRestart]_vars

\* ------------------------------------------------------------- properties
\* The rows of workout w in the store.
WorkoutExerciseRows(w) ==
  {n \in DOMAIN workout_exercises : workout_exercises[n].workout_id = w}
WorkoutSetRows(w) ==
  {n \in DOMAIN workout_sets :
     workout_sets[n].workout_exercise_id \in WorkoutExerciseRows(w)}
HasRows(w) ==
  \/ w \in DOMAIN workouts
  \/ WorkoutExerciseRows(w) # {}
  \/ WorkoutSetRows(w) # {}

\* C1: atomic commit.  When an insert of endWorkout has failed, the store
\* holds no workouts row, no workout_exercises row and no workout_sets row
\* of that invocation's workout.
C1_AtomicCommit ==
  \A n \in DOMAIN ends : ends[n].pc = "failed" => ~HasRows(ends[n].workoutId)

\* An insert of invocation n throws and endWorkout ends in its catch.
Fails(n) ==
  /\ ends[n].pc \in {"hdr", "ex", "set"}
  /\ ends'[n].pc = "failed"

\* C2: the step in which endWorkout fails at one of its inserts leaves the
\* session as it is: isWorkoutActive, the start timestamp, the exercise
\* list with every set, the timer and the notes are unchanged (an Active
\* session stays Active).
C2_FailureKeepsSession ==
  [][(\E n \in DOMAIN ends : Fails(n)) => UNCHANGED session]_vars

\* An Active session with exercises, right after a failed End.
C2_Witness ==
  /\ \E n \in DOMAIN ends : ends[n].pc = "failed"
  /\ popupConfig = [visible |-> TRUE, kind |-> "saveError"]
  /\ isWorkoutActive /\ workoutStartTime # NullTime
  /\ \E k \in DOMAIN activeExercises : activeExercises[k].sets # <<>>

\* C3: set renumbering.  After a removeSet the set_number of every
\* remaining set is its 1-based position in its exercise's sets.
C3_Renumbered ==
  lastEdit = "removeSet" =>
    \A k \in DOMAIN activeExercises :
      \A j \in DOMAIN activeExercises[k].sets :
        activeExercises[k].sets[j].set_number = j

\* A removeSet has left an exercise with a set (added by addSet) in it.
C3_Witness ==
  /\ lastEdit = "removeSet"
  /\ \E k \in DOMAIN activeExercises :
        /\ activeExercises[k].sets # <<>>
        /\ ~activeExercises[k].sets[1].is_warmup

\* The personal_records rows of one (user, exercise, record-type) key.
SameKey(m, n) ==
  /\ personal_records[m].user_id = personal_records[n].user_id
  /\ personal_records[m].exercise_id = personal_records[n].exercise_id
  /\ personal_records[m].record_type = personal_records[n].record_type

C6_NoPartialRead == [][LoadStats => PartialWorkouts = {}]_vars

\* The set row endWorkout would write for invocation p from the session as
\* it was when End was pressed.
SnapshotSetReq(p) ==
  IF p.it.idx + 1 \in DOMAIN p.atEnd[p.i].sets
    THEN SetReq(p, p.atEnd[p.i].sets[p.it.idx + 1])
    ELSE NoReq

C8_StartWhileActive ==
  [][(isWorkoutActive /\ LoadTemplateDone) =>
       UNCHANGED <<workoutStartTime, timer, activeExercises>>]_vars

\* C9: addExercise while no workout is active changes nothing of the
\* session.
C9_AddExerciseWhileIdle ==
  [][(~isWorkoutActive /\ \E ex \in ExerciseIds : AddExercise(ex)) =>
       UNCHANGED session]_vars

\* C10: End on an Active session without exercises only raises the
\* confirmation: no row is written, no insert is issued and the session is
\* unchanged; while the confirmation shows (and no earlier save is pending)
\* the session is cleared only by accepting it, and cancelling leaves the
\* session as it is.
C10_EmptyEndConfirms ==
  [][/\ EndWorkoutEmpty =>
          /\ UNCHANGED <<session, store, ends>>
          /\ popupConfig' = [visible |-> TRUE, kind |-> "confirmEnd"]
     /\ (/\ popupConfig = [visible |-> TRUE, kind |-> "confirmEnd"]
         /\ Pending = {}
         /\ isWorkoutActive /\ ~isWorkoutActive') => ConfirmPopup
     /\ HidePopup => UNCHANGED session]_vars

\* The confirmation shows over an Active, empty session and an empty store.
C10_Witness ==
  /\ popupConfig = [visible |-> TRUE, kind |-> "confirmEnd"]
  /\ isWorkoutActive /\ activeExercises = <<>>
  /\ workouts = <<>> /\ ends = <<>>

\* C11: a session mutation called with an out-of-range index leaves the
\* session as it is: addSet or removeExercise with an invalid exerciseIndex,
\* updateSet or removeSet with an invalid exerciseIndex or setIndex.
C11_OutOfRangeRejected ==
  [][\A k \in Positions : \A j \in SetPositions :
       /\ (k \notin DOMAIN activeExercises /\ (AddSetAt(k) \/ RemoveExerciseAt(k)))
            => UNCHANGED session
       /\ ((k \notin DOMAIN activeExercises \/ j \notin DOMAIN activeExercises[k].sets)
           /\ (\/ RemoveSetAt(k, j)
               \/ \E f \in {"reps", "completed"} :
                    \E v \in UpdateInputs(AbsentSet, f) : UpdateSetAt(k, j, f, v)))
            => UNCHANGED session]_vars

\* The sets of a list of exercises, as (exercise, set) positions, and the sum
\* of weight x reps over a set of positions.
SetsOf(exs) == {<<n, m>> \in (DOMAIN exs) \X (1..MaxSets) : m \in DOMAIN exs[n].sets}
RECURSIVE VolumeOver(_, _)
VolumeOver(exs, at) ==
  IF at = {} THEN 0
  ELSE LET p == CHOOSE q \in at : TRUE
       IN exs[p[1]].sets[p[2]].weight * exs[p[1]].sets[p[2]].reps
            + VolumeOver(exs, at \ {p})
Saving == {n \in DOMAIN ends : ends[n].workoutId > 0 /\ ends[n].atEnd # <<>>}

\* C12: the total_volume of a workout header is the sum of weight x reps over
\* the sets of the session that were completed when End was pressed, warm-up
\* sets included; incomplete sets add nothing.
C12_HeaderVolume ==
  \A n \in Saving :
     workouts[ends[n].workoutId].total_volume =
       VolumeOver(ends[n].atEnd,
                  {p \in SetsOf(ends[n].atEnd) :
                     ends[n].atEnd[p[1]].sets[p[2]].completed})
C12_Witness ==
  \E n \in Saving :
     /\ workouts[ends[n].workoutId].total_volume > 0
     /\ \E p, q \in SetsOf(ends[n].atEnd) :
           /\ ends[n].atEnd[p[1]].sets[p[2]].completed
           /\ ends[n].atEnd[p[1]].sets[p[2]].is_warmup
           /\ ~ends[n].atEnd[q[1]].sets[q[2]].completed

\* The completed working sets of exercise m, as positions, and the
\* invocations that are inside checkPersonalRecords' loop body.
WorkingSets(exs, m) ==
  {p \in SetsOf(exs) :
     p[1] = m /\ exs[m].sets[p[2]].completed /\ ~exs[m].sets[p[2]].is_warmup}
Evaluating ==
  {n \in Saving : ends[n].pc \in {"get1rm", "put1rm", "getvol", "putvol"}}

\* C13: the volume candidate of an exercise is the sum of weight x reps over
\* its completed sets that are not warm-ups, the volume row written holds that
\* sum, and every personal-record query or insert is for an exercise that has
\* such a set (an exercise without one is neither read nor written).
C13_VolumeCandidate ==
  [][\A n \in Evaluating :
       LET exs == ends[n].atEnd
           m == ends[n].prj
       IN /\ m \in DOMAIN exs
          /\ WorkingSets(exs, m) # {}
          /\ ends[n].pr.exercise = exs[m].exercise
          /\ ends[n].pr.vol = VolumeOver(exs, WorkingSets(exs, m))
          /\ PutVolume(n) =>
                /\ personal_records' # <<>>
                /\ LET row == personal_records'[Len(personal_records')]
                   IN /\ row.record_type = "volume"
                      /\ row.exercise_id = exs[m].exercise
                      /\ row.workout_id = ends[n].workoutId
                      /\ row.value = VolumeOver(exs, WorkingSets(exs, m))
          /\ \A r \in DOMAIN personal_records' :
                personal_records'[r].workout_id = ends[n].workoutId =>
                  \E k \in DOMAIN exs :
                     /\ exs[k].exercise = personal_records'[r].exercise_id
                     /\ WorkingSets(exs, k) # {}]_vars
C13_Witness ==
  \E n \in Evaluating :
     LET exs == ends[n].atEnd
     IN /\ ends[n].pc = "putvol"
        /\ ends[n].prj = 2
        /\ WorkingSets(exs, 1) = {}
        /\ \E p \in SetsOf(exs) :
              /\ p[1] = 1
              /\ exs[1].sets[p[2]].completed /\ exs[1].sets[p[2]].is_warmup
        /\ ends[n].pr.vol < workouts[ends[n].workoutId].total_volume
        /\ \E r \in DOMAIN personal_records :
              personal_records[r].workout_id = ends[n].workoutId

\* The earliest of the heaviest completed working sets of exercise m.
Heaviest(exs, m) ==
  CHOOSE p \in WorkingSets(exs, m) :
     \A q \in WorkingSets(exs, m) :
        \/ exs[m].sets[q[2]].weight < exs[m].sets[p[2]].weight
        \/ exs[m].sets[q[2]].weight = exs[m].sets[p[2]].weight /\ p[2] <= q[2]

\* C14: the 1RM candidate of an exercise comes from the first set, in set
\* order, of maximum weight among its completed working sets, as
\* weight x (1 + reps / 30) (kept times thirty), and the 1RM row written
\* stores that value and that set's reps and weight.
C14_FirstHeaviestSet ==
  [][\A n \in Evaluating :
       LET exs == ends[n].atEnd
           m == ends[n].prj
           set == exs[m].sets[Heaviest(exs, m)[2]]
       IN /\ ends[n].pr.weight = set.weight
          /\ ends[n].pr.reps = set.reps
          /\ ends[n].pr.est = set.weight * (30 + set.reps)
          /\ Put1RM(n) =>
                /\ personal_records' # <<>>
                /\ LET row == personal_records'[Len(personal_records')]
                   IN /\ row.record_type = "1RM"
                      /\ row.exercise_id = exs[m].exercise
                      /\ row.value = set.weight * (30 + set.reps)
                      /\ row.reps = set.reps
                      /\ row.weight = set.weight]_vars
C14_Witness ==
  \E n \in Evaluating :
     LET exs == ends[n].atEnd
     IN /\ ends[n].pc = "getvol"
        /\ ends[n].prj = 1
        /\ \E p, q \in WorkingSets(exs, 1) :
              /\ p[2] < q[2]
              /\ exs[1].sets[p[2]].weight = exs[1].sets[q[2]].weight
              /\ exs[1].sets[p[2]].reps < exs[1].sets[q[2]].reps
        /\ \E r \in DOMAIN personal_records :
              /\ personal_records[r].record_type = "1RM"
              /\ personal_records[r].workout_id = ends[n].workoutId
              /\ personal_records[r].reps = exs[1].sets[1].reps

SetCount(exs) == Cardinality(SetsOf(exs))

\* C16: when a statement of personal-record evaluation throws, the workout,
\* exercise and set rows of that end are all in the store and stay there, no
\* row is removed, and endWorkout finishes: the invocation is done and the
\* session is cleared to Idle.
C16_RecordFailureIsolated ==
  [][\A n \in Evaluating :
       faults' # faults =>
         /\ workouts' = workouts
         /\ workout_exercises' = workout_exercises
         /\ workout_sets' = workout_sets
         /\ personal_records' = personal_records
         /\ ends[n].workoutId \in DOMAIN workouts
         /\ Cardinality(WorkoutExerciseRows(ends[n].workoutId)) = Len(ends[n].atEnd)
         /\ Cardinality(WorkoutSetRows(ends[n].workoutId)) = SetCount(ends[n].atEnd)
         /\ ends'[n].pc = "done"
         /\ ~isWorkoutActive'
         /\ workoutStartTime' = NullTime
         /\ activeExercises' = <<>>
         /\ timer' = 0]_vars
C16_Witness ==
  \E n \in DOMAIN ends :
     /\ ends[n].pc = "done"
     /\ faults = 1
     /\ ~isWorkoutActive
     /\ WorkoutSetRows(ends[n].workoutId) # {}
     /\ \E r \in DOMAIN personal_records :
           personal_records[r].workout_id = ends[n].workoutId

\* The personal_records rows that name workout w, and their number for one
\* exercise and record type.
RecordRows(w) == {r \in DOMAIN personal_records : personal_records[r].workout_id = w}
RecordsFor(w, ex, type) ==
  {r \in RecordRows(w) :
     /\ personal_records[r].exercise_id = ex
     /\ personal_records[r].record_type = type}
EvaluationPcs == {"get1rm", "put1rm", "getvol", "putvol"}

\* C17: an invocation of endWorkout is inside personal-record evaluation only
\* when its workout row, all its exercise rows and all its set rows are in
\* the store; evaluation, once entered, only moves forward to its end (it is
\* not entered twice, and writes at most one row per exercise and type); and
\* an invocation whose persistence failed never was in evaluation and has no
\* personal_records row.
C17_EvaluateOnceAfterPersist ==
  [][\A n \in DOMAIN ends :
       /\ n \in Evaluating =>
            /\ ends[n].workoutId \in DOMAIN workouts
            /\ Cardinality(WorkoutExerciseRows(ends[n].workoutId)) = Len(ends[n].atEnd)
            /\ Cardinality(WorkoutSetRows(ends[n].workoutId)) = SetCount(ends[n].atEnd)
            /\ ends'[n].pc \in EvaluationPcs \cup {"done"}
            /\ ends'[n].pc \in EvaluationPcs =>
                  \/ ends'[n].prj > ends[n].prj
                  \/ /\ ends'[n].prj = ends[n].prj
                     /\ <<ends[n].pc, ends'[n].pc>> \in
                          {<<"get1rm", "put1rm">>, <<"get1rm", "getvol">>,
                           <<"put1rm", "getvol">>, <<"getvol", "putvol">>}
            /\ \A ex \in ExerciseIds, type \in {"1RM", "volume"} :
                  Cardinality(RecordsFor(ends[n].workoutId, ex, type))' <= 1
       /\ ends'[n].pc = "failed" =>
            /\ ends[n].pc \in {"hdr", "ex", "set", "failed"}
            /\ RecordRows(ends[n].workoutId)' = {}
       /\ ends[n].pc \in {"hdr", "ex", "set"} => personal_records' = personal_records
     ]_vars
C17_Witness ==
  \E n \in DOMAIN ends :
     /\ ends[n].pc = "failed"
     /\ ends[n].workoutId > 0
     /\ WorkoutSetRows(ends[n].workoutId) # {}
     /\ WorkingSets(activeExercises, 1) # {}
     /\ personal_records = <<>>

C19_CompletedStartsCountdown ==
  [][\A k \in 1..MaxExercises, j \in 1..MaxSets :
       UpdateSet(k, j, "completed", TRUE) =>
         IF activeExercises[k].sets[j].rest_time_seconds > 0
           THEN /\ showRestTimer'
                /\ isRunning'
                /\ timeRemaining' = activeExercises[k].sets[j].rest_time_seconds
           ELSE UNCHANGED rest]_vars

\* C20: in a run of the rest timer onComplete is called only by the tick that
\* takes the remaining time from one to zero, that tick always calls it and
\* stops the countdown, and it is called at most once until the countdown is
\* started again.
C20_CompletesOncePerRun ==
  [][/\ onCompleteCalls' # onCompleteCalls =>
          \/ /\ ~isRunning /\ isRunning'
             /\ onCompleteCalls' = 0
          \/ /\ isRunning /\ timeRemaining = 1
             /\ onCompleteCalls = 0 /\ onCompleteCalls' = 1
             /\ timeRemaining' = 0
             /\ ~isRunning'
     /\ (isRunning /\ timeRemaining # 0 /\ timeRemaining' = 0) =>
          onCompleteCalls' = onCompleteCalls + 1
     /\ (~isRunning /\ isRunning') => timeRemaining' > 0
     /\ (~isRunning /\ ~isRunning') => onCompleteCalls' = onCompleteCalls
     /\ onCompleteCalls' <= 1]_vars
C20_Witness ==
  /\ onCompleteCalls = 1
  /\ ~isRunning
  /\ timeRemaining = 0
  /\ ~showRestTimer
  /\ popupConfig = [visible |-> TRUE, kind |-> "restComplete"]

\* The session state of the initial Idle state.
SessionCleared ==
  /\ ~isWorkoutActive
  /\ workoutStartTime = NullTime
  /\ activeExercises = <<>>
  /\ timer = 0
  /\ workoutNotes = ""

C22_ElapsedFromStart ==
  [][/\ (/\ isWorkoutActive /\ isWorkoutActive'
         /\ workoutStartTime' = workoutStartTime
         /\ timer' # timer) => timer' = now - workoutStartTime
     /\ isWorkoutActive' => timer' \in 0..(now' - workoutStartTime')]_vars
C22_Witness ==
  /\ isWorkoutActive
  /\ timer = 2
  /\ now - workoutStartTime = 2

\* C23: a call of addSet appends one set to one exercise: the sets it had
\* are unchanged, the new last set has the reps, weight and rest seconds of
\* the former last set and its set_number plus one, is not completed and not
\* a warm-up, and every other exercise is unchanged.
C23_AddSetCopiesLast ==
  [][(edits' # edits /\ lastEdit' = "addSet") =>
       /\ Len(activeExercises') = Len(activeExercises)
       /\ \E k \in DOMAIN activeExercises :
             LET old == activeExercises[k].sets
                 new == activeExercises'[k].sets
             IN /\ old # <<>>
                /\ Len(new) = Len(old) + 1
                /\ \A j \in DOMAIN old : new[j] = old[j]
                /\ new[Len(new)].reps = old[Len(old)].reps
                /\ new[Len(new)].weight = old[Len(old)].weight
                /\ new[Len(new)].rest_time_seconds = old[Len(old)].rest_time_seconds
                /\ new[Len(new)].set_number = old[Len(old)].set_number + 1
                /\ ~new[Len(new)].completed
                /\ ~new[Len(new)].is_warmup
                /\ activeExercises'[k].exercise = activeExercises[k].exercise
                /\ activeExercises'[k].notes = activeExercises[k].notes
                /\ \A m \in DOMAIN activeExercises :
                      m # k => activeExercises'[m] = activeExercises[m]]_vars
C23_Witness ==
  /\ lastEdit = "addSet"
  /\ Len(activeExercises[1].sets) = 2
  /\ activeExercises[1].sets[1].weight = 0
  /\ activeExercises[1].sets[2] =
       [set_number |-> 2, reps |-> 5, weight |-> 0, completed |-> FALSE,
        is_warmup |-> FALSE, rest_time_seconds |-> 60]

\* The workout_sets rows of workout_exercises row e.
SetRowsOf(e) == {r \in DOMAIN workout_sets : workout_sets[r].workout_exercise_id = e}

\* C24: the rows of an end are written in session order.  An exercise row is
\* written when all sets of the exercise before it are stored, for the next
\* exercise of the session, with its 0-based position as order_index; a set
\* row is written for the exercise row written last, for the next set of that
\* exercise, completed or not, with its set_number and values; and the
\* inserts are over when every exercise has one row and every set one row.
C24_RowsInSessionOrder ==
  [][\A n \in Saving :
       LET exs == ends[n].atEnd
           w == ends[n].workoutId
           i == Cardinality(WorkoutExerciseRows(w))
           e == Len(workout_exercises)
       IN /\ workout_exercises' # workout_exercises =>
               LET row == workout_exercises'[Len(workout_exercises')]
               IN /\ Len(workout_exercises') = Len(workout_exercises) + 1
                  /\ i < Len(exs)
                  /\ row.workout_id = w
                  /\ row.order_index = i
                  /\ row.exercise_id = exs[i + 1].exercise
                  /\ i > 0 => /\ workout_exercises[e].workout_id = w
                              /\ Cardinality(SetRowsOf(e)) = Len(exs[i].sets)
          /\ workout_sets' # workout_sets =>
               LET row == workout_sets'[Len(workout_sets')]
                   c == Cardinality(SetRowsOf(e))
               IN /\ Len(workout_sets') = Len(workout_sets) + 1
                  /\ i > 0
                  /\ workout_exercises[e].workout_id = w
                  /\ row.workout_exercise_id = e
                  /\ c < Len(exs[i].sets)
                  /\ row.set_number = exs[i].sets[c + 1].set_number
                  /\ row.reps = exs[i].sets[c + 1].reps
                  /\ row.weight = exs[i].sets[c + 1].weight
                  /\ row.completed = exs[i].sets[c + 1].completed
                  /\ row.is_warmup = exs[i].sets[c + 1].is_warmup
          /\ (ends[n].pc \in {"ex", "set"} /\ ends'[n].pc \notin {"ex", "set", "failed"}) =>
               /\ Cardinality(WorkoutExerciseRows(w))' = Len(exs)
               /\ Cardinality(WorkoutSetRows(w))' = SetCount(exs)]_vars
C24_Witness ==
  \E n \in Evaluating :
     /\ Len(ends[n].atEnd) = 2
     /\ Cardinality(WorkoutExerciseRows(ends[n].workoutId)) = 2
     /\ Cardinality(WorkoutSetRows(ends[n].workoutId)) = 3
     /\ workout_exercises[2].order_index = 1
     /\ \E r \in WorkoutSetRows(ends[n].workoutId) :
           ~workout_sets[r].completed /\ workout_sets[r].set_number = 2

\* C25: the invocations of endWorkout made for one session (one start)
\* leave at most one workouts row between them.
C25_OneHeaderPerSession ==
  Cardinality({r \in DOMAIN workouts :
                 workouts[r].start_time = workoutStartTime}) <= 1

\* C26: on the tables initDatabase creates, an invocation of endWorkout on a
\* session whose exercises have sets fails only after a storage fault: with no
\* fault every INSERT is accepted and no invocation ends in the catch.
C26_SavesOnCreatedSchema ==
  schema = "initDatabase" =>
    \A n \in DOMAIN ends : ends[n].pc = "failed" => faults > 0

\* The workouts endWorkout has committed and evaluated.
Committed == {ends[n].workoutId : n \in {m \in DOMAIN ends : ends[m].pc = "done"}}

C28_EveryExerciseHasSet ==
  isWorkoutActive =>
    \A k \in DOMAIN activeExercises : activeExercises[k].sets # <<>>

\* C29: while the rest timer stays closed it is stopped: no step decrements
\* the remaining time and none delivers the completion signal.
C29_ClosedTimerStopped ==
  [][(~showRestTimer /\ ~showRestTimer') =>
       /\ timeRemaining' = timeRemaining
       /\ onCompleteCalls' = onCompleteCalls]_vars

\* C30: at most one elapsed-time interval is scheduled, it is the one of the
\* current session (it closed over the current start), and none is scheduled
\* while no workout is active.
C30_OneTicker ==
  /\ Len(intervals) <= 1
  /\ \A i \in DOMAIN intervals : intervals[i] = workoutStartTime
  /\ ~isWorkoutActive => intervals = <<>>

\* A second session, started after the first was saved and reset, whose
\* ticker has fired.
C30_Witness ==
  /\ isWorkoutActive
  /\ Len(workouts) >= 1
  /\ workoutStartTime > workouts[1].start_time
  /\ intervals = <<workoutStartTime>>
  /\ timer > 0

====
